---- MODULE Spec2Model ----
(***************************************************************************)
(* The multi-resource OAuthClient (class OAuthClient of the client module) *)
(* as a state machine on top of the browser's event loop.                  *)
(*                                                                         *)
(* localStorage is the four storage variables; the private fields of the   *)
(* client object are user_info, fetching_user_info and cbs.  Every call of *)
(* an async method is a task; a task runs synchronously up to its first    *)
(* await (inside the action of the call), is suspended on a network        *)
(* request (net) or on a promise (waitq), and is resumed by a microtask    *)
(* (mq, first in first out).  Responses and application calls are          *)
(* macrotasks: they happen only when the microtask queue is empty.         *)
(***************************************************************************)
EXTENDS Integers, Sequences, FiniteSets, TLC

(* ------------------------------ bounds -------------------------------- *)
\* Number of calls the application makes on the client in one run.
MaxCalls == 2
\* Number of clock ticks (of TickMs milliseconds) in one run.
MaxTicks == 2
\* Number of calls in a run that is about the user-info cache.
MaxCallsUI == 3
\* Number of calls in a run that is about the subscribers.
MaxCallsSub == 3
\* Number of registrations state_changed_callbacks ever holds in one run.
MaxSubs == 3
\* Number of calls in a run that starts with empty storage.
MaxCallsSession == 4
\* Number of calls in a run that is about token introspection.
MaxCallsIntro == 2
\* Number of calls in a run that is about the redirect callback alone.
MaxCallsCallback == 2
\* Calls made by the application in SpecNotify.
MaxCallsNotify == 3
\* Calls made by the application in SpecRecover.
MaxCallsRecover == 3
\* Calls made by the application in SpecInterleave.
MaxCallsInterleave == 3

(* ------------------------- values and encoding ------------------------ *)
\* null of JavaScript: getItem of a missing key, a field holding no promise.
NULL == 0
\* The empty string "" (a string, but falsy).
EMPTY == -1
\* A JSON value of the wrong type (not a string, not a number).
BAD == -99
\* fetch() rejected: no HTTP status.
NETERR == -1

\* client.resources, in configuration order; resources[1] is first_resource.
resources == <<1, 2>>
ResIds == {resources[i] : i \in 1..Len(resources)}
\* An identifier that names no configured resource.
UnknownRes == 9
\* The resource with is_user_information_resource: true.
UserInfoResource == 1
\* options.revoke_endpoint / options.logout_endpoint: given or null.
revoke_endpoint == TRUE
logout_endpoint == FALSE

\* Access and refresh tokens the provider may issue.
Tokens == {1, 2}
\* The token a previous session may have left in storage.
OldToken == 1
\* Code verifiers generateCodeVerifier may draw.
Verifiers == {1, 2}
\* The authorization code in the callback url.
Code == 1
\* The clock at construction, and its step (milliseconds).
Now0 == 2000
TickMs == 1000
\* expires_in values (seconds) of a well-formed token response.
ExpiresIn == {1}

\* generateCodeChallenge: base64url(SHA-256(verifier)), an injective map
\* whose values are no verifiers.
generateCodeChallenge(v) == v + 10

\* Number(localStorage.getItem(key)): Number(null) is 0.
NumberOf(s) == IF s = NULL THEN 0 ELSE s

\* The bodies a token endpoint may answer with status 200.
WellFormed == [st : {200}, at : {2, EMPTY}, rt : {2, EMPTY}, ei : ExpiresIn]
Malformed == { [st |-> 200, at |-> BAD, rt |-> 2, ei |-> 1],
               [st |-> 200, at |-> 2, rt |-> BAD, ei |-> 1],
               [st |-> 200, at |-> 2, rt |-> 2, ei |-> BAD] }
NoData == [st |-> 0, at |-> NULL, rt |-> NULL, ei |-> 0]
TokenOutcomes == WellFormed \cup Malformed
                   \cup {[NoData EXCEPT !.st = 400], [NoData EXCEPT !.st = NETERR]}

VARIABLES
    access,         \* localStorage: resource -> access token or NULL
    expiry,         \* localStorage: resource -> expiration time (ms) or NULL
    refresh,        \* localStorage: the refresh token or NULL
    verifier,       \* localStorage: the stored code verifier or NULL
    user_info,      \* this.user_info: the task whose fetch returned the profile, or NULL
    fetching,       \* this.fetching_user_info: task whose fetchUserInfo promise it holds
    cbs,            \* this.state_changed_callbacks, in insertion order
    notified,       \* the resources notifyStateChanged ran for in the last step
    tasks,          \* the async calls made since the page was loaded
    mq,             \* the microtask queue
    waitq,          \* awaits on a fetchUserInfo promise, in registration order
    net,            \* requests in flight that a task awaits
    revoking,       \* revocation requests in flight (nobody reads the answer)
    nav,            \* a navigation assigned to window.location.href
    url_code,       \* the code parameter of the current url, or NULL
    now,            \* Date.now()
    calls,          \* history: calls made by the application
    budget,         \* the number of calls the application makes in this run
    hist,           \* history: facts the properties refer to
    introspect_endpoint  \* options.introspect_endpoint was given

storage == <<access, expiry, refresh, verifier>>
memory  == <<user_info, fetching, cbs, notified, tasks, mq, waitq, net, revoking, nav>>
vars    == <<access, expiry, refresh, verifier, user_info, fetching, cbs, notified,
             tasks, mq, waitq, net, revoking, nav, url_code, now, calls, budget, hist,
             introspect_endpoint>>

\* A call whose promises are settled and that nothing refers to any more.
DeadTask ==
    [op |-> "dead", pc |-> "done", res |-> NULL, rie |-> FALSE, data |-> NoData, err |-> "",
     val |-> NULL, out |-> "ok", ret |-> NULL,
     gpc |-> "none", gout |-> "pending", gret |-> NULL, wait |-> NULL,
     nreq |-> 0, thrown |-> "", tok0 |-> NULL, exp0 |-> FALSE, rt0 |-> NULL, ev0 |-> {}]

Finished(t) ==
    /\ tasks[t].pc = "done"
    /\ tasks[t].gpc \in {"none", "done"}
    /\ fetching # t
    /\ \A i \in 1..Len(waitq) : waitq[i].on # t
    /\ \A i \in 1..Len(mq) : tasks[mq[i].t].wait # t

\* The state the client code reads and writes, as one record, so that the
\* statements of a handler compose in program order.  The records of the
\* last step (notified, the invocation counts of the callbacks) start empty
\* and finished calls are forgotten.
Cur == [access |-> access, expiry |-> expiry, refresh |-> refresh, verifier |-> verifier,
        user_info |-> user_info, fetching |-> fetching,
        cbs |-> SubSeq([i \in 1..Len(cbs) |-> [cbs[i] EXCEPT !.n = 0, !.rt = NULL]], 1, Len(cbs)),
        notified |-> {},
        tasks |-> SubSeq([t \in 1..Len(tasks) |-> IF Finished(t) THEN DeadTask ELSE tasks[t]],
                         1, Len(tasks)),
        mq |-> mq, waitq |-> waitq, net |-> net, revoking |-> revoking,
        nav |-> nav, hist |-> hist]

Commit(S) ==
    /\ access' = S.access       /\ expiry' = S.expiry
    /\ refresh' = S.refresh     /\ verifier' = S.verifier
    /\ user_info' = S.user_info /\ fetching' = S.fetching
    /\ cbs' = S.cbs             /\ notified' = S.notified
    /\ tasks' = S.tasks         /\ mq' = S.mq
    /\ waitq' = S.waitq         /\ net' = S.net
    /\ revoking' = S.revoking
    /\ nav' = S.nav             /\ hist' = S.hist

(* ------------------------------- tasks -------------------------------- *)
\* A call of an async method.  op is the method, pc the statement the call
\* is suspended at, data the parsed response body, err the error thrown so
\* far, out/ret how its promise settled.  A getUserInfo call has two
\* threads: the call itself (gpc, gout, gret) and the fetchUserInfo promise
\* it may create (pc, out, ret).  tok0, exp0, rt0, ev0 and nreq are history.
NewTask(S, op, r, rie) ==
    [op |-> op, pc |-> "start", res |-> r, rie |-> rie, data |-> NoData, err |-> "",
     val |-> NULL, out |-> "pending", ret |-> NULL,
     gpc |-> "none", gout |-> "pending", gret |-> NULL, wait |-> NULL,
     nreq |-> 0, thrown |-> "",
     tok0 |-> IF r \in ResIds THEN S.access[r] ELSE NULL,
     exp0 |-> IF r \in ResIds THEN now > NumberOf(S.expiry[r]) ELSE FALSE,
     rt0  |-> S.refresh,
     ev0  |-> S.hist.evicted]

Spawn(S, op, r, rie) == [S EXCEPT !.tasks = Append(@, NewTask(S, op, r, rie))]

\* Schedules the continuation of thread th of task t as a microtask.
Enqueue(S, t, th, pc) ==
    IF th = "c"
    THEN [S EXCEPT !.tasks[t].pc = pc, !.mq = Append(@, [t |-> t, th |-> th])]
    ELSE [S EXCEPT !.tasks[t].gpc = pc, !.mq = Append(@, [t |-> t, th |-> th])]

Pop(S) == [S EXCEPT !.mq = Tail(@)]

\* The reactions registered on the promise of task t, in registration order.
WaitersOn(S, t) ==
    LET On(w) == w.on = t
        ws == SelectSeq(S.waitq, On)
    IN [i \in 1..Len(ws) |-> [t |-> ws[i].t, th |-> "g"]]

\* The promise of the chain thread of task t settles; a fetchUserInfo promise
\* wakes the getUserInfo calls that await it.
Settle(S, t, ret) ==
    LET NotOn(w) == w.on # t
        S1 == [S EXCEPT !.tasks[t].pc = "done",
                        !.tasks[t].out = IF S.tasks[t].err = "" THEN "ok" ELSE "err",
                        !.tasks[t].ret = IF S.tasks[t].err = "" THEN ret ELSE NULL]
    IN [S1 EXCEPT !.mq = @ \o WaitersOn(S, t), !.waitq = SelectSeq(@, NotOn)]

\* throw new Error(e) in the chain thread of task t.
Throw(S, t, e) == [S EXCEPT !.tasks[t].err = e, !.tasks[t].thrown = e]

(* -------------------------------- subscribe --------------------------- *)
\* What a callback given to subscribe does when it is invoked: nothing on the
\* client, a call of the unsubscribe function of registration arg, or a
\* subscribe of a further callback (one that does nothing) under resource arg.
Behaviours ==
    {[act |-> "none", arg |-> 0]}
    \cup {[act |-> "unsub", arg |-> j] : j \in 1..MaxSubs}
    \cup {[act |-> "sub", arg |-> r] : r \in ResIds}

\* cb(access_token) of registration i is entered.  History: n counts the
\* invocations in this step, last is the value passed last, agree whether
\* every value passed was the one in storage at that moment, late whether
\* the callback was entered after its unsubscribe function had been called,
\* rt the refresh token that storage held when it was entered in this step.
Invoke(S, i, access_token) ==
    [S EXCEPT !.cbs[i] = [@ EXCEPT !.last = access_token,
                                   !.n = @ + 1,
                                   !.agree = @ /\ access_token = S.access[S.cbs[i].key],
                                   !.late = @ \/ ~S.cbs[i].active,
                                   !.rt = S.refresh]]

\* An unsubscribe that removes every registration of the same resource.
unsubscribe_ByKey(S, i) ==
    [S EXCEPT !.cbs = [j \in DOMAIN @ |->
                         IF @[j].key = @[i].key THEN [@[j] EXCEPT !.active = FALSE] ELSE @[j]]]

\* Lines 648-650: state_changed_callbacks.delete(state_changed_callback).
unsubscribe(S, i) == [S EXCEPT !.cbs[i].active = FALSE]

\* Lines 638-646, for a callback b: the entry is added to the set and the
\* callback is entered with the stored access token.
register(S, r, b) ==
    LET access_token == S.access[r]
        S1 == [S EXCEPT !.cbs = Append(@, [key |-> r, active |-> TRUE, act |-> b.act,
                                           arg |-> b.arg, last |-> NULL, n |-> 0,
                                           agree |-> TRUE, late |-> FALSE,
                                           rt |-> NULL])]
    IN Invoke(S1, Len(S1.cbs), access_token)

\* The body of the callback of registration i.  The callback holds the
\* unsubscribe function of registration arg once the subscribe that made it
\* has returned: own_known is FALSE while the subscribe of i itself runs.
RunCb(S, i, own_known) ==
    LET c == S.cbs[i]
    IN  IF c.act = "unsub"
        THEN IF c.arg \in 1..Len(S.cbs) /\ (c.arg # i \/ own_known)
             THEN unsubscribe(S, c.arg) ELSE S
        ELSE IF c.act = "sub"
        THEN IF Len(S.cbs) < MaxSubs
             THEN register(S, c.arg, [act |-> "none", arg |-> 0]) ELSE S
        ELSE S

\* Lines 636-651; the function returned is unsubscribe of the new entry.
subscribe(S, r, b) ==
    LET S1 == register(S, r, b)
    IN RunCb(S1, Len(S1.cbs), FALSE)

(* ------------------------ state handling methods ---------------------- *)
\* Lines 659-661: Set.prototype.forEach from entry i on.  It visits the
\* entries in insertion order, those added during the iteration included,
\* and passes over the entries deleted before their turn.
RECURSIVE FanOut(_, _, _, _)
FanOut(S, r, access_token, i) ==
    IF i > Len(S.cbs) THEN S
    ELSE IF S.cbs[i].active /\ S.cbs[i].key = r
         THEN FanOut(RunCb(Invoke(S, i, access_token), i, TRUE), r, access_token, i + 1)
         ELSE FanOut(S, r, access_token, i + 1)

\* Lines 653-662.
notifyStateChanged(S, r) ==
    LET access_token == S.access[r]
    IN [FanOut(S, r, access_token, 1) EXCEPT !.notified = @ \cup {r}]

\* History: an access token is being set or cleared while the cache holds
\* S.user_info.
NoteTokenChange(S) ==
    [S EXCEPT !.hist.evicted = IF S.user_info = NULL THEN @ ELSE @ \cup {S.user_info},
              !.hist.profile = NULL]

\* clearAccessToken that leaves the user-info cache alone.
clearAccessToken_KeepsCache(S, r) ==
    LET S1 == [NoteTokenChange(S) EXCEPT !.access[r] = NULL, !.expiry[r] = NULL]
    IN notifyStateChanged(S1, r)

\* setAccessToken that notifies before it writes.
setAccessToken_NotifiesFirst(S, r, access_token, expires_in) ==
    LET expiration_time_ms == now + expires_in * 1000
        S0 == notifyStateChanged(NoteTokenChange(S), r)
        S1 == [S0 EXCEPT
                   !.access[r] = IF access_token # EMPTY THEN access_token ELSE @,
                   !.expiry[r] = IF expiration_time_ms # 0 THEN expiration_time_ms ELSE @]
    IN [S1 EXCEPT !.user_info = NULL, !.fetching = NULL]

\* Lines 525-540.
setAccessToken(S, r, access_token, expires_in) ==
    LET expiration_time_ms == now + expires_in * 1000
        S1 == [NoteTokenChange(S) EXCEPT
                   !.access[r] = IF access_token # EMPTY THEN access_token ELSE @,
                   !.expiry[r] = IF expiration_time_ms # 0 THEN expiration_time_ms ELSE @]
        S2 == [S1 EXCEPT !.user_info = NULL, !.fetching = NULL]
    IN notifyStateChanged(S2, r)

\* Lines 542-553.
clearAccessToken(S, r) ==
    LET S1 == [NoteTokenChange(S) EXCEPT !.access[r] = NULL, !.expiry[r] = NULL]
        S2 == [S1 EXCEPT !.user_info = NULL, !.fetching = NULL]
    IN notifyStateChanged(S2, r)

setRefreshToken(S, refresh_token) ==
    [S EXCEPT !.refresh = IF refresh_token # EMPTY THEN refresh_token ELSE @]

clearRefreshToken(S) == [S EXCEPT !.refresh = NULL]

\* setCodeVerifier that leaves a value already stored in place.
setCodeVerifier_KeepsFirst(S, code_verifier) ==
    IF S.verifier = NULL THEN [S EXCEPT !.verifier = code_verifier] ELSE S

setCodeVerifier(S, code_verifier) == [S EXCEPT !.verifier = code_verifier]

clearCodeVerifier(S) == [S EXCEPT !.verifier = NULL]

\* tokenIsExpired that counts a token as expired from the instant of its
\* expiry on.
tokenIsExpired_NotStrict(S, r) ==
    LET expiration_time == NumberOf(S.expiry[r])
        current_time == now
    IN current_time >= expiration_time

\* Lines 620-627.
tokenIsExpired(S, r) ==
    LET expiration_time == NumberOf(S.expiry[r])
        current_time == now
    IN current_time > expiration_time

\* fetch(): the request is on the wire and task t is suspended on it.
Fetch(S, t, kind, r, tok) ==
    [S EXCEPT !.net = @ \cup {[t |-> t, kind |-> kind, res |-> r, tok |-> tok]},
              !.tasks[t].pc = "fetch",
              !.tasks[t].nreq = IF kind = "refresh" THEN @ + 1 ELSE @,
              !.hist.ui_sent = IF kind = "userinfo" THEN @ + 1 ELSE @,
              !.hist.ui_by = IF kind = "userinfo" THEN t ELSE @]

(* --------------------------- refreshAccessToken ----------------------- *)
\* The promise of refreshAccessToken settles and its caller goes on.
RefreshReturn(S, t) ==
    CASE S.tasks[t].op = "refresh"  -> Settle(S, t, S.tasks[t].data.at)
      [] S.tasks[t].op = "hrcOther" -> Enqueue(S, t, "c", "cb_resume")
      [] OTHER                      -> Enqueue(S, t, "c", "gat_resume")

\* refreshAccessToken that drops the resource's access token when it finds no
\* refresh token.
refreshAccessToken_ClearsAccess(S, t, r) ==
    IF r \notin ResIds THEN RefreshReturn(Throw(S, t, "unknown"), t)
    ELSE IF S.refresh = NULL
         THEN RefreshReturn(Throw(clearAccessToken(S, r), t, "norefresh"), t)
    ELSE Fetch(S, t, "refresh", r, S.refresh)

\* Lines 313-339: up to the await of fetch.
refreshAccessToken(S, t, r) ==
    IF r \notin ResIds THEN RefreshReturn(Throw(S, t, "unknown"), t)
    ELSE IF S.refresh = NULL THEN RefreshReturn(Throw(S, t, "norefresh"), t)
    ELSE Fetch(S, t, "refresh", r, S.refresh)

\* RefreshResumed that also removes the refresh token when the provider
\* rejects the request.
RefreshResumed_ClearsRefresh(S, t) ==
    LET d == S.tasks[t].data
        r == S.tasks[t].res
    IN  IF d.st = NETERR THEN RefreshReturn(Throw(S, t, "neterr"), t)
        ELSE IF d.st # 200
             THEN RefreshReturn(Throw(clearRefreshToken(clearAccessToken(S, r)), t, "non200"), t)
        ELSE IF d.at = BAD \/ d.rt = BAD \/ d.ei = BAD
             THEN RefreshReturn(Throw(S, t, "malformed"), t)
        ELSE RefreshReturn(setRefreshToken(setAccessToken(S, r, d.at, d.ei), d.rt), t)

\* Lines 340-366: the response has been parsed into tasks[t].data.
RefreshResumed(S, t) ==
    LET d == S.tasks[t].data
        r == S.tasks[t].res
    IN  IF d.st = NETERR THEN RefreshReturn(Throw(S, t, "neterr"), t)
        ELSE IF d.st # 200
             THEN RefreshReturn(Throw(clearAccessToken(S, r), t, "non200"), t)
        ELSE IF d.at = BAD \/ d.rt = BAD \/ d.ei = BAD
             THEN RefreshReturn(Throw(S, t, "malformed"), t)
        ELSE RefreshReturn(setRefreshToken(setAccessToken(S, r, d.at, d.ei), d.rt), t)

(* ----------------------------- getAccessToken ------------------------- *)
\* The promise of getAccessToken settles (with v unless an error was thrown)
\* and its caller goes on.
GatReturn(S, t, v) ==
    CASE S.tasks[t].op = "gat"      -> Settle(S, t, v)
      [] S.tasks[t].op = "gui"      -> Enqueue([S EXCEPT !.tasks[t].val = v], t, "c", "fui_resume")
      [] S.tasks[t].op = "logoutCb" -> Enqueue([S EXCEPT !.tasks[t].val = v], t, "c", "lo_resume")
      [] OTHER                      -> Enqueue([S EXCEPT !.tasks[t].val = v], t, "c", "in_resume")

\* getAccessToken that refreshes an expired token whatever the option says.
getAccessToken_IgnoresOption(S, t, r, refresh_if_expired) ==
    IF S.access[r] = NULL THEN GatReturn(S, t, NULL)
    ELSE IF tokenIsExpired(S, r) THEN refreshAccessToken(S, t, r)
    ELSE GatReturn(S, t, S.access[r])

\* getAccessToken that returns what is stored without looking at its expiry.
getAccessToken_NeverRefreshes(S, t, r, refresh_if_expired) ==
    GatReturn(S, t, S.access[r])

\* getAccessToken without the early return of line 568.
getAccessToken_NoEarlyReturn(S, t, r, refresh_if_expired) ==
    IF refresh_if_expired /\ tokenIsExpired(S, r) THEN refreshAccessToken(S, t, r)
    ELSE GatReturn(S, t, S.access[r])

\* Lines 563-572: up to the await of refreshAccessToken.
getAccessToken(S, t, r, refresh_if_expired) ==
    IF S.access[r] = NULL THEN GatReturn(S, t, NULL)
    ELSE IF refresh_if_expired /\ tokenIsExpired(S, r) THEN refreshAccessToken(S, t, r)
    ELSE GatReturn(S, t, S.access[r])

\* getAccessToken that catches the error of refreshAccessToken and goes on.
GatResumed_Catches(S, t) ==
    GatReturn([S EXCEPT !.tasks[t].err = ""], t, S.access[S.tasks[t].res])

\* Lines 574-576: after the await of refreshAccessToken.
GatResumed(S, t) ==
    IF S.tasks[t].err # "" THEN GatReturn(S, t, NULL)
    ELSE GatReturn(S, t, S.access[S.tasks[t].res])

(* ------------------------------ getUserInfo --------------------------- *)
\* The promise of getUserInfo settles.
SettleG(S, t, out, ret) ==
    [S EXCEPT !.tasks[t].gpc = "done", !.tasks[t].gout = out, !.tasks[t].gret = ret]

\* await p, p the fetchUserInfo promise of task p: the continuation is a
\* microtask at once when p is settled, and a reaction on p otherwise.
AwaitPromise(S, t, p, gpc) ==
    IF S.tasks[p].out # "pending"
    THEN Enqueue([S EXCEPT !.tasks[t].wait = p], t, "g", gpc)
    ELSE [S EXCEPT !.tasks[t].wait = p, !.tasks[t].gpc = gpc,
                   !.waitq = Append(@, [t |-> t, on |-> p])]

\* Lines 457-468: fetchUserInfo up to the await of getAccessToken.
fetchUserInfo(S, t) == getAccessToken(S, t, UserInfoResource, TRUE)

\* Lines 470-477: after the await of getAccessToken, up to the await of fetch.
FuiResumed(S, t) ==
    IF S.tasks[t].err # "" THEN Settle(S, t, NULL)
    ELSE IF S.tasks[t].val = NULL THEN Settle(S, t, NULL)
    ELSE Fetch(S, t, "userinfo", UserInfoResource, S.tasks[t].val)

\* Lines 478-484: the user-info response has been parsed.
UiResumed(S, t) ==
    LET d == S.tasks[t].data
    IN  IF d.st = NETERR THEN Settle(Throw(S, t, "neterr"), t, NULL)
        ELSE IF d.st # 200 THEN Settle(Throw(S, t, "ui_non200"), t, NULL)
        ELSE Settle(S, t, t)

\* Lines 443-449: from the read of this.user_info to the await of the fetch.
GuiBody(S, t) ==
    IF S.user_info # NULL THEN SettleG(S, t, "ok", S.user_info)
    ELSE LET S1 == fetchUserInfo(S, t)
             S2 == [S1 EXCEPT !.fetching = t]
         IN AwaitPromise(S2, t, t, "await2")

\* Lines 440-441: getUserInfo up to its first await.
getUserInfo(S, t) ==
    IF S.fetching # NULL THEN AwaitPromise(S, t, S.fetching, "await1")
    ELSE GuiBody(S, t)

\* After the await of line 441.
GuiResumed1(S, t) ==
    IF S.tasks[S.tasks[t].wait].out = "err" THEN SettleG(S, t, "err", NULL)
    ELSE GuiBody(S, t)

\* Lines 449-453: after the await of the fetch this call started.
GuiResumed2(S, t) ==
    IF S.tasks[t].out = "err" THEN SettleG(S, t, "err", NULL)
    ELSE SettleG([S EXCEPT !.user_info = S.tasks[t].ret, !.fetching = NULL],
                 t, "ok", S.tasks[t].ret)

(* --------------------------------- logout ----------------------------- *)
\* Lines 407-422: the revocation request is sent; nothing reads the answer.
revokeToken(S, token, token_type_hint) ==
    [S EXCEPT !.revoking[<<token_type_hint, token>>] = @ + 1]

\* Lines 386-387: the callback of resources.forEach for resources[i], up to
\* its await, for every i from i on.
RECURSIVE LogoutForEach(_, _)
LogoutForEach(S, i) ==
    IF i > Len(resources) THEN S
    ELSE LET r == resources[i]
             S1 == Spawn(S, "logoutCb", r, TRUE)
         IN LogoutForEach(getAccessToken(S1, Len(S1.tasks), r, TRUE), i + 1)

\* Lines 378-405.
logout(S) ==
    LET refresh_token == S.refresh
        S1 == IF refresh_token # NULL /\ revoke_endpoint
              THEN revokeToken(S, refresh_token, "refresh_token") ELSE S
        S2 == clearRefreshToken(S1)
        S3 == LogoutForEach(S2, 1)
        S4 == clearCodeVerifier(S3)
    IN  IF logout_endpoint THEN [S4 EXCEPT !.nav = "logout"] ELSE S4

\* Lines 388-389: the forEach callback after its await.
LogoutCbResumed(S, t) ==
    IF S.tasks[t].err # "" THEN Settle(S, t, NULL)
    ELSE LET access_token == S.tasks[t].val
             S1 == IF access_token # NULL /\ revoke_endpoint
                   THEN revokeToken(S, access_token, "access_token") ELSE S
         IN Settle(clearAccessToken(S1, S.tasks[t].res), t, NULL)

(* ------------------------- handleRedirectCallback --------------------- *)
\* The promise of fetchTokensFromAuthorizationCode settles.
FtReturn(S, t) == Enqueue(S, t, "c", "hrc_resume")

\* fetchTokensFromAuthorizationCode that looks for the verifier before it
\* looks for the code.
fetchTokensFromAuthorizationCode_VerifierFirst(S, t, code) ==
    LET code_verifier == S.verifier
        S1 == clearCodeVerifier(S)
    IN  IF code_verifier = NULL THEN FtReturn(Throw(S1, t, "noverifier"), t)
        ELSE IF code = NULL THEN FtReturn(Throw(S1, t, "nocode"), t)
        ELSE Fetch(S1, t, "code", resources[1], code_verifier)

\* fetchTokensFromAuthorizationCode that removes the verifier only when it
\* goes on to send the request.
fetchTokensFromAuthorizationCode_KeepsVerifier(S, t, code) ==
    LET code_verifier == S.verifier
    IN  IF code = NULL THEN FtReturn(Throw(S, t, "nocode"), t)
        ELSE IF code_verifier = NULL THEN FtReturn(Throw(S, t, "noverifier"), t)
        ELSE Fetch(clearCodeVerifier(S), t, "code", resources[1], code_verifier)

\* Lines 245-272: up to the await of fetch.
fetchTokensFromAuthorizationCode(S, t, code) ==
    LET code_verifier == S.verifier
        S1 == clearCodeVerifier(S)
    IN  IF code = NULL THEN FtReturn(Throw(S1, t, "nocode"), t)
        ELSE IF code_verifier = NULL THEN FtReturn(Throw(S1, t, "noverifier"), t)
        ELSE Fetch(S1, t, "code", resources[1], code_verifier)

\* Lines 273-296: the response has been parsed into tasks[t].data.
FtResumed(S, t) ==
    LET d == S.tasks[t].data
    IN  IF d.st = NETERR THEN FtReturn(Throw(S, t, "neterr"), t)
        ELSE IF d.st # 200 THEN FtReturn(Throw(S, t, "non200"), t)
        ELSE IF d.at = BAD \/ d.ei = BAD \/ d.rt = BAD
             THEN FtReturn(Throw(S, t, "malformed"), t)
        ELSE FtReturn(setRefreshToken(setAccessToken(S, resources[1], d.at, d.ei), d.rt), t)

\* Line 239: the callback of other_resources.forEach, for every i from i on.
RECURSIVE HrcForEach(_, _)
HrcForEach(S, i) ==
    IF i > Len(resources) THEN S
    ELSE LET r == resources[i]
             S1 == Spawn(S, "hrcOther", r, TRUE)
         IN HrcForEach(refreshAccessToken(S1, Len(S1.tasks), r), i + 1)

\* handleRedirectCallback that goes on to the other resources whatever the
\* code exchange came to.
HrcResumed_StartsRefreshes(S, t) ==
    Settle(HrcForEach(S, 2), t, NULL)

\* Lines 236-240: after the await of fetchTokensFromAuthorizationCode.
HrcResumed(S, t) ==
    IF S.tasks[t].err # "" THEN Settle(S, t, NULL)
    ELSE Settle(HrcForEach(S, 2), t, NULL)

(* ---------------------------- introspectToken ------------------------- *)
\* What a 200 answer of the introspection endpoint may carry: an active or an
\* inactive token.
Payloads == {1, 2}

\* introspectToken that goes on without looking at the endpoint.
introspectToken_NoEndpointCheck(S, t, r) ==
    getAccessToken(S, t, r, TRUE)

\* Lines 492-497: up to the await of getAccessToken.
introspectToken(S, t, r) ==
    IF ~introspect_endpoint
    THEN Settle(Throw(S, t, "noendpoint"), t, NULL)
    ELSE getAccessToken(S, t, r, TRUE)

\* Lines 497-510: after the await of getAccessToken, up to the await of fetch.
ItResumed1(S, t) ==
    IF S.tasks[t].err # "" THEN Settle(S, t, NULL)
    ELSE IF S.tasks[t].val = NULL THEN Settle(S, t, NULL)
    ELSE Fetch(S, t, "introspect", S.tasks[t].res, S.tasks[t].val)

\* Lines 510-517: after the await of fetch.
ItResumed2(S, t) ==
    LET d == S.tasks[t].data
    IN  IF d.st = NETERR THEN Settle(Throw(S, t, "neterr"), t, NULL)
        ELSE IF d.st # 200 THEN Settle(Throw(S, t, "in_non200"), t, NULL)
        ELSE Settle(S, t, S.tasks[t].val)

(* --------------------------- loginWithRedirect ------------------------ *)
\* Lines 169-176: up to the await of generateCodeChallenge.
loginWithRedirect(S, t, code_verifier) ==
    [S EXCEPT !.tasks[t].val = code_verifier, !.tasks[t].pc = "digest",
              !.net = @ \cup {[t |-> t, kind |-> "digest", res |-> NULL, tok |-> NULL]}]

\* loginWithRedirect that stores the random verifier, as RFC 7636 has it.
LoginResumed_StoresVerifier(S, t) ==
    LET code_challenge == generateCodeChallenge(S.tasks[t].val)
        S1 == setCodeVerifier(S, S.tasks[t].val)
        S2 == [S1 EXCEPT !.nav = "login", !.hist.challenge = code_challenge,
                         !.hist.redeemed = FALSE, !.hist.discarded = S.verifier]
    IN Settle(S2, t, NULL)

\* Lines 178-201: the authorization url, the stored value, the navigation.
LoginResumed(S, t) ==
    LET code_challenge == generateCodeChallenge(S.tasks[t].val)
        S1 == setCodeVerifier(S, code_challenge)
        S2 == [S1 EXCEPT !.nav = "login", !.hist.challenge = code_challenge,
                         !.hist.redeemed = FALSE, !.hist.discarded = S.verifier]
    IN Settle(S2, t, NULL)

(* ------------------------------- the page ----------------------------- *)
\* What a previous session of the client may have left in localStorage.
SessionStorage ==
    { s \in [access : [ResIds -> {NULL, OldToken}],
             expiry : [ResIds -> {NULL, Now0 - TickMs, Now0 + TickMs}],
             refresh : {NULL, OldToken},
             verifier : {NULL, generateCodeChallenge(1)}] :
        \A r \in ResIds : (s.access[r] = NULL) <=> (s.expiry[r] = NULL) }

\* evicted: the profiles the cache held when an access token was set or
\* cleared; ui_sent: the user-info requests sent since a getUserInfo call last
\* found no other call pending, and ui_by the call that sent the last of them;
\* all_ok: every token response so far was a success with non-empty tokens
\* and expires_in > 0; challenge: the code_challenge of the last
\* authorization request; session: "none" until a code exchange has been
\* answered with a success, then "closed" when the last event that changed a
\* token was a logout and "open" when it was another one; redeemed:
\* handleRedirectCallback was called since a verifier was last stored;
\* profile: what the first getUserInfo that returned a profile since an
\* access token was last set or cleared returned; discarded: what the
\* code-verifier key held when the last loginWithRedirect wrote to it.
NoHist == [evicted |-> {}, ui_sent |-> 0, ui_by |-> NULL, all_ok |-> TRUE, challenge |-> NULL,
           session |-> "none", redeemed |-> FALSE, profile |-> NULL,
           discarded |-> NULL]

NoRevoking == [x \in {"access_token", "refresh_token"} \X Tokens |-> 0]

\* The constructor (lines 132-151) on a freshly loaded page whose storage is
\* one of stores and whose url carries one of codes; the application makes b
\* calls; options.introspect_endpoint was given or not as endpoints says.
InitOn(stores, codes, b, endpoints) ==
    /\ \E s \in stores :
          /\ access = s.access   /\ expiry = s.expiry
          /\ refresh = s.refresh /\ verifier = s.verifier
    /\ user_info = NULL /\ fetching = NULL
    /\ cbs = <<>>
    /\ notified = {}
    /\ tasks = <<>> /\ mq = <<>> /\ waitq = <<>>
    /\ net = {} /\ revoking = NoRevoking
    /\ nav = "none"
    /\ url_code \in codes
    /\ now = Now0
    /\ calls = 0
    /\ budget = b
    /\ hist = NoHist
    /\ introspect_endpoint \in endpoints

\* The same for a client constructed without an introspection endpoint.
InitWith(stores, codes, b) == InitOn(stores, codes, b, {FALSE})

Init == InitOn(SessionStorage, {NULL, Code}, MaxCalls, BOOLEAN)

\* The application is running a macrotask of its own and may call the client.
CanCall == mq = <<>> /\ calls < budget

\* History: the step that produced S was event ev for the tokens.
NoteSession(S, ev) ==
    [S EXCEPT !.hist.session = IF ev = "exchange" THEN "open"
                               ELSE IF @ = "none" THEN @
                               ELSE IF ev = "logout" THEN "closed"
                               ELSE "open"]

\* The step that produced S changed a token in storage.
TokensChanged(S) ==
    S.refresh # refresh \/ S.access # access \/ S.expiry # expiry

Called == /\ calls' = calls + 1
          /\ UNCHANGED <<url_code, now, budget, introspect_endpoint>>

Stepped == UNCHANGED <<url_code, now, calls, budget, introspect_endpoint>>

NewId(S) == Len(S.tasks) + 1

(* ------------------------ calls of the application -------------------- *)
CallGetAccessToken(r, rie) ==
    /\ CanCall
    /\ Commit(getAccessToken(Spawn(Cur, "gat", r, rie), NewId(Cur), r, rie))
    /\ Called

CallRefreshAccessToken(r) ==
    /\ CanCall
    /\ Commit(refreshAccessToken(Spawn(Cur, "refresh", r, TRUE), NewId(Cur), r))
    /\ Called

\* History: getUserInfo call t has returned a profile in the step that
\* produced S.
NoteProfile(S, t) ==
    IF S.tasks[t].gpc = "done" /\ S.tasks[t].gout = "ok" /\ S.tasks[t].gret # NULL
       /\ S.hist.profile = NULL
    THEN [S EXCEPT !.hist.profile = S.tasks[t].gret]
    ELSE S

GuiPending(S) == {t \in 1..Len(S.tasks) : S.tasks[t].op = "gui" /\ S.tasks[t].gpc # "done"}

CallGetUserInfo ==
    /\ CanCall
    /\ LET t  == NewId(Cur)
           S1 == Spawn(Cur, "gui", UserInfoResource, TRUE)
           S2 == [S1 EXCEPT !.hist.ui_sent = IF GuiPending(Cur) = {} THEN 0 ELSE @,
                            !.hist.ui_by = IF GuiPending(Cur) = {} THEN NULL ELSE @]
       IN Commit(NoteProfile(getUserInfo(S2, t), t))
    /\ Called

CallLogout ==
    /\ CanCall
    /\ Commit(NoteSession(logout(Cur), "logout"))
    /\ Called

CallHandleRedirectCallback ==
    /\ CanCall
    /\ Commit([fetchTokensFromAuthorizationCode(
                   Spawn(Cur, "hrc", resources[1], TRUE), NewId(Cur), url_code)
                   EXCEPT !.hist.redeemed = TRUE])
    /\ Called

CallIntrospectToken(r) ==
    /\ CanCall
    /\ Commit(introspectToken(Spawn(Cur, "it", r, TRUE), NewId(Cur), r))
    /\ Called

CallLoginWithRedirect(v) ==
    /\ CanCall
    /\ Commit(loginWithRedirect(Spawn(Cur, "login", resources[1], TRUE), NewId(Cur), v))
    /\ Called

CallSubscribe(r, b) ==
    /\ CanCall
    /\ Len(cbs) < MaxSubs
    /\ Commit(subscribe(Cur, r, b))
    /\ Called

CallUnsubscribe(i) ==
    /\ CanCall
    /\ i \in 1..Len(cbs)
    /\ Commit(unsubscribe(Cur, i))
    /\ Called

(* ------------------------------ macrotasks ---------------------------- *)
\* The token endpoint answers request q with d (or the request fails).
TokenResponse(q, d) ==
    /\ mq = <<>>
    /\ q \in net /\ q.kind \in {"refresh", "code"}
    /\ LET S1 == [Cur EXCEPT !.net = @ \ {q},
                             !.tasks[q.t].data = d,
                             !.hist.all_ok = @ /\ d \in WellFormed /\ d.ei > 0
                                               /\ d.at # EMPTY /\ d.rt # EMPTY]
       IN Commit(Enqueue(S1, q.t, "c", IF q.kind = "refresh" THEN "rf_resume" ELSE "ft_resume"))
    /\ Stepped

\* The introspection endpoint answers request q with status st and payload p
\* (or the request fails).
IntrospectResponse(q, st, p) ==
    /\ mq = <<>>
    /\ q \in net /\ q.kind = "introspect"
    /\ LET S1 == [Cur EXCEPT !.net = @ \ {q},
                             !.tasks[q.t].data = [NoData EXCEPT !.st = st],
                             !.tasks[q.t].val = IF st = 200 THEN p ELSE NULL]
       IN Commit(Enqueue(S1, q.t, "c", "in_resume2"))
    /\ Stepped

\* The user-info endpoint answers request q with status st.
UserInfoResponse(q, st) ==
    /\ mq = <<>>
    /\ q \in net /\ q.kind = "userinfo"
    /\ LET S1 == [Cur EXCEPT !.net = @ \ {q}, !.tasks[q.t].data = [NoData EXCEPT !.st = st]]
       IN Commit(Enqueue(S1, q.t, "c", "ui_resume"))
    /\ Stepped

\* crypto.subtle.digest has finished.
DigestDone(q) ==
    /\ mq = <<>>
    /\ q \in net /\ q.kind = "digest"
    /\ Commit(Enqueue([Cur EXCEPT !.net = @ \ {q}], q.t, "c", "login_resume"))
    /\ Stepped

\* A revocation request is answered, or fails: revokeToken ends either way.
RevokeResponse(x) ==
    /\ mq = <<>>
    /\ revoking[x] > 0
    /\ Commit([Cur EXCEPT !.revoking[x] = @ - 1])
    /\ Stepped

Tick ==
    /\ mq = <<>>
    /\ now < Now0 + MaxTicks * TickMs
    /\ now' = now + TickMs
    /\ Commit(Cur)
    /\ UNCHANGED <<url_code, calls, budget, introspect_endpoint>>

\* The navigation assigned to window.location.href takes place: the page and
\* the client object are gone, localStorage stays, the next page constructs a
\* new client.  The provider redirects back with a code or without one.
Unload ==
    /\ mq = <<>>
    /\ nav # "none"
    /\ url_code' \in (IF nav = "login" THEN {NULL, Code} ELSE {NULL})
    /\ user_info' = NULL /\ fetching' = NULL
    /\ cbs' = <<>> /\ notified' = {}
    /\ tasks' = <<>> /\ mq' = <<>> /\ waitq' = <<>>
    /\ net' = {} /\ revoking' = NoRevoking
    /\ nav' = "none"
    /\ hist' = [hist EXCEPT !.evicted = {}, !.ui_sent = 0, !.ui_by = NULL, !.profile = NULL]
    /\ UNCHANGED <<access, expiry, refresh, verifier, now, calls, budget,
                   introspect_endpoint>>

(* ------------------------------ microtasks ---------------------------- *)
\* The microtask at the head of the queue is the continuation pc of thread th.
Next_mt(th, pc) ==
    /\ mq # <<>>
    /\ Head(mq).th = th
    /\ IF th = "c" THEN tasks[Head(mq).t].pc = pc ELSE tasks[Head(mq).t].gpc = pc

RefreshResume ==
    /\ Next_mt("c", "rf_resume")
    /\ LET S == RefreshResumed(Pop(Cur), Head(mq).t)
       IN Commit(IF TokensChanged(S) THEN NoteSession(S, "refresh") ELSE S)
    /\ Stepped

GatResume ==
    /\ Next_mt("c", "gat_resume")
    /\ Commit(GatResumed(Pop(Cur), Head(mq).t))
    /\ Stepped

ItResume1 ==
    /\ Next_mt("c", "in_resume")
    /\ Commit(ItResumed1(Pop(Cur), Head(mq).t))
    /\ Stepped

ItResume2 ==
    /\ Next_mt("c", "in_resume2")
    /\ Commit(ItResumed2(Pop(Cur), Head(mq).t))
    /\ Stepped

FuiResume ==
    /\ Next_mt("c", "fui_resume")
    /\ Commit(FuiResumed(Pop(Cur), Head(mq).t))
    /\ Stepped

UiResume ==
    /\ Next_mt("c", "ui_resume")
    /\ Commit(UiResumed(Pop(Cur), Head(mq).t))
    /\ Stepped

GuiResume1 ==
    /\ Next_mt("g", "await1")
    /\ Commit(NoteProfile(GuiResumed1(Pop(Cur), Head(mq).t), Head(mq).t))
    /\ Stepped

GuiResume2 ==
    /\ Next_mt("g", "await2")
    /\ Commit(NoteProfile(GuiResumed2(Pop(Cur), Head(mq).t), Head(mq).t))
    /\ Stepped

LogoutCbResume ==
    /\ Next_mt("c", "lo_resume")
    /\ Commit(NoteSession(LogoutCbResumed(Pop(Cur), Head(mq).t), "logout"))
    /\ Stepped

FtResume ==
    /\ Next_mt("c", "ft_resume")
    /\ LET S == FtResumed(Pop(Cur), Head(mq).t)
       IN Commit(IF tasks[Head(mq).t].data \in WellFormed THEN NoteSession(S, "exchange") ELSE S)
    /\ Stepped

HrcResume ==
    /\ Next_mt("c", "hrc_resume")
    /\ Commit(HrcResumed(Pop(Cur), Head(mq).t))
    /\ Stepped

HrcOtherResume ==
    /\ Next_mt("c", "cb_resume")
    /\ Commit(Settle(Pop(Cur), Head(mq).t, NULL))
    /\ Stepped

LoginResume ==
    /\ Next_mt("c", "login_resume")
    /\ Commit(LoginResumed(Pop(Cur), Head(mq).t))
    /\ Stepped

Next ==
    \/ \E r \in ResIds, rie \in BOOLEAN : CallGetAccessToken(r, rie)
    \/ \E r \in ResIds \cup {UnknownRes} : CallRefreshAccessToken(r)
    \/ CallGetUserInfo
    \/ \E r \in ResIds : CallIntrospectToken(r)
    \/ CallLogout
    \/ CallHandleRedirectCallback
    \/ \E v \in Verifiers : CallLoginWithRedirect(v)
    \/ \E r \in ResIds, b \in Behaviours : CallSubscribe(r, b)
    \/ \E i \in 1..Len(cbs) : CallUnsubscribe(i)
    \/ \E q \in net, d \in TokenOutcomes : TokenResponse(q, d)
    \/ \E q \in net, st \in {200, 400, NETERR} : UserInfoResponse(q, st)
    \/ \E q \in net, st \in {200, 400, NETERR}, p \in Payloads : IntrospectResponse(q, st, p)
    \/ \E q \in net : DigestDone(q)
    \/ \E x \in DOMAIN revoking : RevokeResponse(x)
    \/ Tick
    \/ Unload
    \/ RefreshResume \/ GatResume \/ FuiResume \/ UiResume
    \/ GuiResume1 \/ GuiResume2
    \/ ItResume1 \/ ItResume2
    \/ LogoutCbResume
    \/ FtResume \/ HrcResume \/ HrcOtherResume
    \/ LoginResume

Spec == Init /\ [][Next]_vars

(* ---------------- the token accessor and the refresher alone ---------- *)
InitAccess == InitWith({s \in SessionStorage : s.verifier = NULL}, {NULL}, MaxCalls)

NextAccess ==
    \/ \E r \in ResIds, rie \in BOOLEAN : CallGetAccessToken(r, rie)
    \/ \E r \in ResIds \cup {UnknownRes} : CallRefreshAccessToken(r)
    \/ \E q \in net, d \in TokenOutcomes : TokenResponse(q, d)
    \/ Tick
    \/ RefreshResume \/ GatResume

SpecAccess == InitAccess /\ [][NextAccess]_vars

(* ------------- the user-info cache and every change of a token -------- *)
\* The page opens on a redirect back from the provider, over storage that holds
\* a refresh token and a code verifier; the access token of the second
\* resource, if there is one, has expired.
InitUserInfo ==
    InitWith({s \in SessionStorage : /\ s.verifier # NULL /\ s.refresh # NULL
                                      /\ NumberOf(s.expiry[resources[2]]) < Now0},
             {Code}, MaxCallsUI)

\* One answer of each kind: a success, a rejection, a body without access_token.
SomeOutcomes ==
    { [st |-> 200, at |-> 2, rt |-> 2, ei |-> 1],
      [NoData EXCEPT !.st = 400],
      [st |-> 200, at |-> BAD, rt |-> 2, ei |-> 1] }

NextUserInfo ==
    \/ CallGetUserInfo
    \/ \E r \in ResIds : CallRefreshAccessToken(r)
    \/ CallLogout
    \/ CallHandleRedirectCallback
    \/ \E q \in net, d \in SomeOutcomes : TokenResponse(q, d)
    \/ \E q \in net, st \in {200, 400} : UserInfoResponse(q, st)
    \/ \E x \in DOMAIN revoking : RevokeResponse(x)
    \/ RefreshResume \/ GatResume \/ FuiResume \/ UiResume
    \/ GuiResume1 \/ GuiResume2
    \/ LogoutCbResume
    \/ FtResume \/ HrcResume \/ HrcOtherResume

SpecUserInfo == InitUserInfo /\ [][NextUserInfo]_vars

(* ---------------------- subscribers and notifications ------------------ *)
\* The page opens outside a login: no code in the url, no verifier stored.
InitSubscribe ==
    InitWith({s \in SessionStorage : s.verifier = NULL}, {NULL}, MaxCallsSub)

NextSubscribe ==
    \/ \E r \in ResIds, b \in Behaviours : CallSubscribe(r, b)
    \/ \E i \in 1..Len(cbs) : CallUnsubscribe(i)
    \/ \E r \in ResIds : CallRefreshAccessToken(r)
    \/ CallLogout
    \/ \E q \in net, d \in SomeOutcomes : TokenResponse(q, d)
    \/ \E x \in DOMAIN revoking : RevokeResponse(x)
    \/ RefreshResume \/ GatResume
    \/ LogoutCbResume

SpecSubscribe == InitSubscribe /\ [][NextSubscribe]_vars

(* ------------------- a session that starts with empty storage --------- *)
EmptyStorage ==
    { s \in SessionStorage : /\ \A r \in ResIds : s.access[r] = NULL
                              /\ s.refresh = NULL /\ s.verifier = NULL }

InitSession == InitWith(EmptyStorage, {NULL}, MaxCallsSession)

NextSession ==
    \/ \E v \in {1} : CallLoginWithRedirect(v)
    \/ CallHandleRedirectCallback
    \/ CallLogout
    \/ \E r \in ResIds : CallRefreshAccessToken(r)
    \/ \E q \in net, d \in SomeOutcomes : TokenResponse(q, d)
    \/ \E q \in net : DigestDone(q)
    \/ \E x \in DOMAIN revoking : RevokeResponse(x)
    \/ Tick
    \/ Unload
    \/ RefreshResume \/ GatResume
    \/ LogoutCbResume
    \/ FtResume \/ HrcResume \/ HrcOtherResume
    \/ LoginResume

SpecSession == InitSession /\ [][NextSession]_vars

\* Token introspection: a page whose storage a previous session left, a
\* client constructed with or without an introspection endpoint.
InitIntrospect ==
    InitOn({s \in SessionStorage : s.verifier = NULL}, {NULL}, MaxCallsIntro, BOOLEAN)

NextIntrospect ==
    \/ \E r \in ResIds : CallIntrospectToken(r)
    \/ \E q \in net, d \in SomeOutcomes : TokenResponse(q, d)
    \/ \E q \in net, st \in {200, 400, NETERR}, p \in Payloads : IntrospectResponse(q, st, p)
    \/ Tick
    \/ RefreshResume \/ GatResume \/ ItResume1 \/ ItResume2

SpecIntrospect == InitIntrospect /\ [][NextIntrospect]_vars

(* ------------------- the login and the callback after it -------------- *)
NextLogin ==
    \/ \E v \in Verifiers : CallLoginWithRedirect(v)
    \/ CallHandleRedirectCallback
    \/ \E q \in net, d \in SomeOutcomes : TokenResponse(q, d)
    \/ \E q \in net : DigestDone(q)
    \/ Unload
    \/ RefreshResume
    \/ FtResume \/ HrcResume \/ HrcOtherResume
    \/ LoginResume

SpecLogin == InitSession /\ [][NextLogin]_vars

(* ------------- the redirect callback and every answer to it ----------- *)
\* The page opens on a redirect back from the provider with a code, over
\* storage that holds the verifier and whatever an earlier session left.
InitCallback ==
    InitWith({s \in SessionStorage : s.verifier # NULL}, {Code}, MaxCallsCallback)

NextCallback ==
    \/ CallHandleRedirectCallback
    \/ \E q \in net, d \in TokenOutcomes : TokenResponse(q, d)
    \/ RefreshResume
    \/ FtResume \/ HrcResume \/ HrcOtherResume

SpecCallback == InitCallback /\ [][NextCallback]_vars

(* ------------- subscribers of a page that exchanges and refreshes ----- *)
\* Callbacks that leave the client alone are subscribed on a page that may
\* have opened on a redirect back from the provider.
InitNotify == InitWith(SessionStorage, {NULL, Code}, MaxCallsNotify)

NextNotify ==
    \/ \E r \in ResIds : CallSubscribe(r, [act |-> "none", arg |-> 0])
    \/ CallHandleRedirectCallback
    \/ \E r \in ResIds : CallRefreshAccessToken(r)
    \/ \E q \in net, d \in SomeOutcomes : TokenResponse(q, d)
    \/ RefreshResume
    \/ FtResume \/ HrcResume \/ HrcOtherResume

SpecNotify == InitNotify /\ [][NextNotify]_vars

(* ---------------- a resource whose refresh has been rejected ---------- *)
\* The page holds an access token for every resource and a refresh token;
\* nothing in this specification removes an access token but a rejected
\* refresh.
InitRecover ==
    InitWith({s \in SessionStorage : /\ \A r \in ResIds : s.access[r] # NULL
                                      /\ s.refresh # NULL},
             {NULL, Code}, MaxCallsRecover)

NextRecover ==
    \/ \E r \in ResIds, rie \in BOOLEAN : CallGetAccessToken(r, rie)
    \/ \E r \in ResIds : CallRefreshAccessToken(r)
    \/ CallHandleRedirectCallback
    \/ \E q \in net, d \in SomeOutcomes : TokenResponse(q, d)
    \/ RefreshResume \/ GatResume
    \/ FtResume \/ HrcResume \/ HrcOtherResume

SpecRecover == InitRecover /\ [][NextRecover]_vars

(* ------------ token reads among refreshes, failures and logouts ------- *)
\* The page holds a refresh token, an access token for every resource, expired
\* or not, and no verifier; getAccessToken is called
\* with refresh_if_expired, while refreshes and logouts come and go and the
\* clock advances.  The revocation requests of a logout stay unanswered:
\* nothing in the client reads their answers.
InitInterleave ==
    InitWith({s \in SessionStorage : /\ s.verifier = NULL /\ s.refresh # NULL
                                      /\ \A r \in ResIds : s.access[r] # NULL},
             {NULL}, MaxCallsInterleave)

NextInterleave ==
    \/ \E r \in ResIds : CallGetAccessToken(r, TRUE)
    \/ \E r \in ResIds : CallRefreshAccessToken(r)
    \/ CallLogout
    \/ \E q \in net, d \in SomeOutcomes : TokenResponse(q, d)
    \/ Tick
    \/ RefreshResume \/ GatResume
    \/ LogoutCbResume

SpecInterleave == InitInterleave /\ [][NextInterleave]_vars

(* ============================== properties ============================ *)
TaskIds == 1..Len(tasks)

\* C1: once logout() and the callbacks it started have run to completion,
\* storage holds no access token and no expiry for any resource, no refresh
\* token and no code verifier.
C1_LogoutClearsStorage ==
    (/\ \E t \in TaskIds : tasks[t].op = "logoutCb"
     /\ \A t \in TaskIds : tasks[t].op = "logoutCb" => tasks[t].pc = "done")
    => /\ \A r \in ResIds : access[r] = NULL /\ expiry[r] = NULL
       /\ refresh = NULL
       /\ verifier = NULL

\* C2: when the promise of handleRedirectCallback resolves and the provider
\* has answered every token request with a well-formed success, storage holds
\* a refresh token and, for every configured resource, an access token whose
\* expiry is later than the current time.
C2_CallbackStoresEveryResource ==
    \A t \in TaskIds :
        (tasks[t].op = "hrc" /\ tasks[t].pc = "done" /\ tasks[t].out = "ok" /\ hist.all_ok)
        => /\ refresh # NULL
           /\ \A r \in ResIds : access[r] # NULL /\ expiry[r] # NULL /\ expiry[r] > now

\* C3: a getAccessToken(id) call with refresh_if_expired that finds an expired
\* access token and a refresh token sends exactly one refresh request before it
\* returns and, if the request succeeds, returns the access token of the
\* response.
C3_OneRefreshThenNewToken ==
    \A t \in TaskIds :
        (/\ tasks[t].op = "gat" /\ tasks[t].rie /\ tasks[t].pc = "done"
         /\ tasks[t].tok0 # NULL /\ tasks[t].exp0 /\ tasks[t].rt0 # NULL)
        => /\ tasks[t].nreq = 1
           /\ tasks[t].data \in WellFormed
                => tasks[t].out = "ok" /\ tasks[t].ret = tasks[t].data.at

\* C4: with no access token stored for id, getAccessToken(id) returns null at
\* once, sends no request and changes nothing in storage, whatever
\* refresh_if_expired is and whether or not a refresh token is stored.
C4_NoTokenNoRequest ==
    [][\A r \in ResIds, rie \in BOOLEAN :
          (CallGetAccessToken(r, rie) /\ access[r] = NULL)
          => /\ tasks'[Len(tasks')].out = "ok"
             /\ tasks'[Len(tasks')].ret = NULL
             /\ net' = net /\ revoking' = revoking
             /\ access' = access /\ expiry' = expiry
             /\ refresh' = refresh /\ verifier' = verifier
             /\ notified' = {}]_vars

C4_Witness ==
    \E t \in TaskIds :
        /\ tasks[t].op = "gat" /\ tasks[t].rie /\ tasks[t].pc = "done"
        /\ tasks[t].tok0 = NULL /\ tasks[t].rt0 # NULL
        /\ tasks[t].ret = NULL /\ net = {}

\* What the refresh of call t ran into, told from what the call was given:
\* the storage it found and the answer it received.
RefreshErrors == {"norefresh", "neterr", "non200", "malformed"}

RefreshFailed(t) ==
    \/ tasks[t].rt0 = NULL
    \/ tasks[t].nreq > 0 /\ tasks[t].data # NoData /\ tasks[t].data \notin WellFormed

ExpectedError(t) ==
    IF tasks[t].rt0 = NULL THEN "norefresh"
    ELSE IF tasks[t].data.st = NETERR THEN "neterr"
    ELSE IF tasks[t].data.st # 200 THEN "non200"
    ELSE "malformed"

\* C5: when getAccessToken(id) with refresh_if_expired finds an expired access
\* token and the refresh it awaits fails (no refresh token, a non-200 answer, a
\* malformed body), the call fails with that error: it returns neither null
\* nor a token.
C5_RefreshFailurePropagates ==
    \A t \in TaskIds :
        (/\ tasks[t].op = "gat" /\ tasks[t].rie /\ tasks[t].pc = "done"
         /\ tasks[t].tok0 # NULL /\ tasks[t].exp0
         /\ RefreshFailed(t))
        => tasks[t].out = "err" /\ tasks[t].err = ExpectedError(t)

C5_Witness ==
    \E t \in TaskIds :
        /\ tasks[t].op = "gat" /\ tasks[t].rie /\ tasks[t].pc = "done"
        /\ tasks[t].tok0 # NULL /\ tasks[t].exp0
        /\ tasks[t].nreq = 1 /\ tasks[t].data.st = 400
        /\ tasks[t].out = "err"

\* An answer of the token endpoint that is not a success: non-200, or 200
\* with access_token or refresh_token no string or expires_in no number.
BadAnswer(d) == d.st # NETERR /\ d \notin WellFormed

\* C6: whenever refreshAccessToken(id) receives a non-200 answer or a 200
\* answer with a malformed body, it removes the access token and the expiry of
\* id from storage, notifies the subscribers of id and fails with an error.
C6_BadAnswerClearsToken ==
    [][(Next_mt("c", "rf_resume") /\ BadAnswer(tasks[Head(mq).t].data))
       => LET t == Head(mq).t
              r == tasks[t].res
          IN /\ access'[r] = NULL /\ expiry'[r] = NULL
             /\ r \in notified'
             /\ tasks'[t].err # ""]_vars

\* The refresh of call t fails in this step.
RefreshFailsNow(t) ==
    /\ tasks'[t].op \in {"refresh", "gat", "gui", "hrcOther"}
    /\ tasks'[t].thrown \in RefreshErrors \cup {"unknown"}
    /\ t > Len(tasks) \/ tasks[t].thrown = ""

C8_TokenFailureClearsToken ==
    [][((Next_mt("c", "rf_resume") \/ Next_mt("c", "ft_resume"))
        /\ tasks[Head(mq).t].data \notin WellFormed)
       => LET t == Head(mq).t
          IN /\ access'[tasks[t].res] = NULL
             /\ tasks[t].op = "hrc" => refresh' = refresh
             /\ tasks'[t].err # ""
             /\ net' \subseteq net]_vars

\* C9: getUserInfo() calls that overlap while nothing is cached send one
\* request to the user-info endpoint between them, and every one of them
\* returns the answer to that request.
C9_SingleFlight ==
    /\ hist.ui_sent <= 1
    /\ \A t \in TaskIds :
          (/\ tasks[t].op = "gui" /\ tasks[t].gpc = "done"
           /\ tasks[t].gout = "ok" /\ tasks[t].gret # NULL /\ hist.ui_sent >= 1)
          => tasks[t].gret = hist.ui_by

\* C10: every set and every clear of an access token empties the user-info
\* cache, and a getUserInfo() call made after it never returns a profile that
\* was in the cache before it.
C10_CacheInvalidated ==
    /\ notified # {} => user_info = NULL
    /\ user_info # NULL => user_info \notin hist.evicted
    /\ \A t \in TaskIds :
          (tasks[t].op = "gui" /\ tasks[t].gpc = "done" /\ tasks[t].gout = "ok")
          => tasks[t].gret \notin tasks[t].ev0

C10_Witness ==
    \E t \in TaskIds :
        /\ tasks[t].op = "gui" /\ tasks[t].gpc = "done" /\ tasks[t].gout = "ok"
        /\ tasks[t].gret # NULL
        /\ tasks[t].ev0 # {}

\* C11: subscribe(id, cb) invokes cb once during the call, with the access
\* token stored for id; afterwards, while the registration is active, cb is
\* invoked once for each set or clear of the access token of id that comes
\* after the subscribe, and not at all for a change to another resource's
\* token or to the refresh token.
C11_OncePerChange ==
    [][\A i \in 1..Len(cbs') :
          IF i > Len(cbs)
          THEN cbs'[i].n = 1 /\ cbs'[i].last = access'[cbs'[i].key]
          ELSE (cbs[i].active /\ cbs'[i].active)
               => cbs'[i].n = (IF cbs'[i].key \in notified' THEN 1 ELSE 0)]_vars

\* No operation of the client is in the middle of its execution.
Quiet ==
    /\ mq = <<>> /\ net = {} /\ waitq = <<>>
    /\ \A t \in TaskIds : tasks[t].pc = "done" /\ tasks[t].gpc \in {"none", "done"}

\* C12: every value passed to a subscriber is the access token stored for its
\* resource at the moment of the invocation, and whenever no operation of the
\* client is in the middle of its execution the value each active subscriber
\* received last is the access token now stored for its resource.
C12_StorageAndNotificationsAgree ==
    \A i \in 1..Len(cbs) :
        /\ cbs[i].agree
        /\ (Quiet /\ cbs[i].active) => cbs[i].last = access[cbs[i].key]

C12_Witness ==
    /\ Quiet
    /\ \E i \in 1..Len(cbs), t \in TaskIds :
          /\ cbs[i].active /\ cbs[i].n = 1 /\ cbs[i].key \in notified
          /\ tasks[t].op = "refresh" /\ tasks[t].res = cbs[i].key /\ tasks[t].out = "ok"
          /\ cbs[i].last = tasks[t].data.at

\* C13: after the function returned by subscribe has been called, the
\* callback is never entered again through that registration, not even by a
\* fan-out that was running when it was called; calling it again changes
\* nothing; and no other registration is removed by it.
C13_UnsubscribeOwnOnly ==
    [][/\ \A i \in 1..Len(cbs') : ~cbs'[i].late
       /\ \A i \in 1..Len(cbs) :
             /\ ~cbs[i].active => (~cbs'[i].active /\ cbs'[i].n = 0)
             /\ CallUnsubscribe(i)
                => /\ ~cbs'[i].active
                   /\ \A j \in 1..Len(cbs) \ {i} : cbs'[j].active = cbs[j].active
                   /\ ~cbs[i].active => cbs' = Cur.cbs
                   /\ Len(cbs') = Len(cbs)]_vars

C13_Witness ==
    \E i, j \in 1..Len(cbs) :
        /\ i < j /\ cbs[i].key = cbs[j].key /\ cbs[i].key \in notified
        /\ cbs[i].act = "unsub" /\ cbs[i].arg = j /\ cbs[i].n = 1
        /\ ~cbs[j].active /\ cbs[j].n = 0
        /\ cbs[j].last # cbs[i].last

\* C14: a resource's access token is stored if and only if its expiry is
\* stored, in every state reached from storage that pairs them, whatever
\* string access_token and numeric expires_in the token responses carry.
C14_TokenAndExpiryPaired ==
    \A r \in ResIds : (access[r] = NULL) <=> (expiry[r] = NULL)

\* C15: starting from empty storage, the refresh token is absent exactly when
\* no code exchange has completed successfully yet or the last event that
\* changed a token was a logout; in particular no state holds an access token
\* for some resource and no refresh token.  Stated for the states in which no
\* operation of the client is in the middle of its execution.
C15_RefreshTokenPresence ==
    Quiet => /\ (refresh = NULL) <=> (hist.session \in {"none", "closed"})
             /\ \A r \in ResIds : access[r] # NULL => refresh # NULL

\* The error a handleRedirectCallback made now fails with before any request.
HrcEarlyError == IF url_code = NULL THEN "nocode" ELSE "noverifier"

\* C16 as amended: every handleRedirectCallback removes the stored verifier,
\* whether it goes on or fails, and only loginWithRedirect stores one; a
\* handleRedirectCallback that finds no verifier sends no request and fails,
\* with the missing-code error when the url has no code and with the
\* missing-verifier error otherwise.
C16_VerifierOneShot ==
    [][/\ CallHandleRedirectCallback
          => /\ verifier' = NULL
             /\ hist.redeemed => verifier = NULL
             /\ verifier = NULL
                  => /\ tasks'[Len(tasks')].thrown = HrcEarlyError
                     /\ net' = net
       /\ (verifier' # verifier /\ verifier' # NULL) => Next_mt("c", "login_resume")]_vars

C16_Witness ==
    \E t \in TaskIds :
        /\ tasks[t].op = "hrc" /\ tasks[t].thrown = "noverifier"
        /\ hist.session = "open" /\ hist.redeemed /\ url_code # NULL
        /\ verifier = NULL /\ net = {}

\* C16 as written: a handleRedirectCallback made after another one, with no
\* loginWithRedirect having stored a verifier in between, fails with the
\* missing-verifier error whatever made the one before it fail.
C16_SecondCallMissingVerifier ==
    [][CallHandleRedirectCallback
          => /\ verifier' = NULL
             /\ hist.redeemed
                  => /\ tasks'[Len(tasks')].thrown = "noverifier"
                     /\ net' = net]_vars

\* The tokens in storage.
tokens == <<access, expiry, refresh>>

\* C17: handleRedirectCallback fails with the missing-code error when the url
\* has no code and with the missing-verifier error when it has one and no
\* verifier is stored; in both cases no request is sent, no token is written,
\* no subscriber is notified and no refresh of another resource is started.
C17_EarlyErrors ==
    [][/\ (CallHandleRedirectCallback /\ (url_code = NULL \/ verifier = NULL))
          => /\ tasks'[Len(tasks')].thrown = HrcEarlyError
             /\ net' = net /\ tokens' = tokens /\ notified' = {}
       /\ (/\ Next_mt("c", "hrc_resume")
           /\ tasks[Head(mq).t].thrown \in {"nocode", "noverifier"})
          => /\ tasks'[Head(mq).t].out = "err"
             /\ tasks'[Head(mq).t].err = tasks[Head(mq).t].thrown
             /\ Len(tasks') = Len(tasks)
             /\ net' = net /\ tokens' = tokens /\ notified' = {}]_vars

C17_Witness ==
    \E t \in TaskIds :
        /\ tasks[t].op = "hrc" /\ tasks[t].pc = "done" /\ tasks[t].out = "err"
        /\ tasks[t].err = "nocode" /\ url_code = NULL
        /\ verifier = NULL /\ net = {}

\* C18: handleRedirectCallback resolves when the code exchange for the first
\* resource succeeded, whatever becomes of the refreshes of the other
\* resources, which it starts and does not wait for; when the exchange failed
\* it rejects and starts no refresh.
C18_OutcomeOfFirstExchangeOnly ==
    [][/\ Next_mt("c", "hrc_resume")
          => LET t == Head(mq).t
             IN IF tasks[t].data \in WellFormed
                THEN /\ tasks'[t].out = "ok"
                     /\ Len(tasks') = Len(tasks) + Len(resources) - 1
                     /\ \A u \in (Len(tasks) + 1)..Len(tasks') : tasks'[u].op = "hrcOther"
                ELSE /\ tasks'[t].out = "err"
                     /\ Len(tasks') = Len(tasks)
                     /\ net' = net
       /\ \A t \in 1..Len(tasks) :
             (tasks[t].op = "hrc" /\ tasks[t].out # "pending" /\ t <= Len(tasks'))
             => tasks'[t].op = "dead" \/ tasks'[t].out = tasks[t].out]_vars

C18_Witness ==
    \E t \in TaskIds :
        /\ tasks[t].op = "hrcOther" /\ tasks[t].thrown = "non200"
        /\ hist.session = "open"
        /\ access[resources[1]] # NULL

C20_IntrospectGuards ==
    [][/\ \A r \in ResIds :
            CallIntrospectToken(r)
            => /\ ~introspect_endpoint
                    => /\ tasks'[Len(tasks')].out = "err"
                       /\ tasks'[Len(tasks')].err = "noendpoint"
                       /\ net' = net /\ tokens' = tokens /\ notified' = {}
               /\ (introspect_endpoint /\ access[r] = NULL)
                    => /\ tasks'[Len(tasks')].out = "pending"
                       /\ tasks'[Len(tasks')].pc = "in_resume"
                       /\ mq' = <<[t |-> Len(tasks'), th |-> "c"]>>
                       /\ net' = net /\ tokens' = tokens
       /\ (/\ Next_mt("c", "in_resume")
           /\ tasks[Head(mq).t].tok0 = NULL)
          => /\ tasks'[Head(mq).t].out = "ok"
             /\ tasks'[Head(mq).t].ret = NULL
             /\ tasks'[Head(mq).t].nreq = 0
             /\ net' = net /\ tokens' = tokens]_vars

C20_Witness ==
    \E t \in TaskIds :
        /\ tasks[t].op = "it" /\ tasks[t].tok0 = NULL
        /\ tasks[t].out = "ok" /\ tasks[t].ret = NULL
        /\ introspect_endpoint
        /\ refresh # NULL /\ access[tasks[t].res] = NULL
        /\ net = {}

\* C21: a getUserInfo() called while no access token is stored for the
\* user-info resource sends no user-info request, does not fail and returns
\* null.
C21_NoTokenNullProfile ==
    \A t \in TaskIds :
        (tasks[t].op = "gui" /\ tasks[t].tok0 = NULL)
        => /\ tasks[t].gout # "err"
           /\ tasks[t].gret = NULL
           /\ \A q \in net : q.t # t

\* C22: once a getUserInfo() has returned a profile, every getUserInfo()
\* called before an access token is set or cleared returns that same profile
\* at once and sends no request.
C22_CachedProfileReturned ==
    [][(CallGetUserInfo /\ hist.profile # NULL)
          => /\ tasks'[Len(tasks')].gout = "ok"
             /\ tasks'[Len(tasks')].gret = hist.profile
             /\ net' = net]_vars

\* C23: tokenIsExpired(id) is true exactly when the clock is strictly past
\* the stored expiry of id, and always when no expiry is stored; a
\* getAccessToken for a stored token sends a refresh request exactly when it
\* may refresh, the clock is strictly past the expiry and a refresh token is
\* stored, and returns the stored token at once when it sends none and does
\* not fail.
C23_StrictExpiry ==
    [][/\ \A r \in ResIds :
            tokenIsExpired(Cur, r) <=> (expiry[r] = NULL \/ now > expiry[r])
       /\ \A r \in ResIds, rie \in BOOLEAN :
            (CallGetAccessToken(r, rie) /\ access[r] # NULL)
            => /\ net' # net <=> (rie /\ now > NumberOf(expiry[r]) /\ refresh # NULL)
               /\ now <= NumberOf(expiry[r])
                    => /\ net' = net
                       /\ tasks'[Len(tasks')].out = "ok"
                       /\ tasks'[Len(tasks')].ret = access[r]]_vars

C23_Witness ==
    \E t \in TaskIds :
        /\ tasks[t].op = "gat" /\ tasks[t].rie /\ tasks[t].pc = "done"
        /\ expiry[tasks[t].res] = now
        /\ tasks[t].out = "ok" /\ tasks[t].ret = access[tasks[t].res]
        /\ tasks[t].ret # NULL /\ tasks[t].nreq = 0
        /\ refresh # NULL /\ net = {}

\* C24: with a revoke endpoint, logout() sends one revocation request for the
\* stored refresh token, if there is one, and its callback for a resource
\* sends one for the access token that was stored for the resource when
\* logout was called, expired or not.
C24_LogoutRevokesEveryToken ==
    [][/\ (CallLogout /\ refresh # NULL)
          => revoking'[<<"refresh_token", refresh>>] = revoking[<<"refresh_token", refresh>>] + 1
       /\ (Next_mt("c", "lo_resume") /\ tasks[Head(mq).t].tok0 # NULL)
          => LET x == <<"access_token", tasks[Head(mq).t].tok0>>
             IN revoking'[x] = revoking[x] + 1]_vars

\* C25: when refreshAccessToken(key) fails, the access token of key and the
\* refresh token are gone from storage.  (The scope-keyed client's method is
\* the resource-keyed one with key in place of the resource identifier.)
C25_FailedRefreshRemovesBoth ==
    [][\A t \in 1..Len(tasks') :
          (RefreshFailsNow(t) /\ tasks'[t].res \in ResIds)
          => access'[tasks'[t].res] = NULL /\ refresh' = NULL]_vars

\* C26: a refreshAccessToken(id) answered 200 with a string access_token, a
\* string refresh_token and a numeric expires_in stores the refresh token of
\* the answer, stores the access token of the answer for id with the expiry
\* now + expires_in * 1000, leaves the token and expiry of every other
\* resource alone and notifies the subscribers of id.
C26_SuccessfulRefreshStores ==
    [][(Next_mt("c", "rf_resume") /\ tasks[Head(mq).t].data \in WellFormed)
       => LET t == Head(mq).t
              r == tasks[t].res
              d == tasks[t].data
          IN /\ refresh' = d.rt
             /\ access'[r] = d.at
             /\ expiry'[r] = now + d.ei * 1000
             /\ \A o \in ResIds \ {r} : access'[o] = access[o] /\ expiry'[o] = expiry[o]
             /\ r \in notified'
             /\ tasks'[t].err = ""]_vars

\* C27: getAccessToken(id, { refresh_if_expired: false }) returns at once what
\* is stored as the access token of id, expired or not, null when there is
\* none; it sends no request, changes no stored token, expiry or refresh
\* token and notifies nobody.
C27_NoRefreshOptionIsPure ==
    [][\A r \in ResIds :
          CallGetAccessToken(r, FALSE)
          => /\ tasks'[Len(tasks')].out = "ok"
             /\ tasks'[Len(tasks')].ret = access[r]
             /\ net' = net /\ tokens' = tokens /\ notified' = {}
             /\ mq' = <<>>]_vars

C27_Witness ==
    \E t \in TaskIds :
        /\ tasks[t].op = "gat" /\ ~tasks[t].rie /\ tasks[t].pc = "done"
        /\ tasks[t].exp0 /\ tasks[t].tok0 # NULL
        /\ tasks[t].out = "ok" /\ tasks[t].ret = tasks[t].tok0
        /\ access[tasks[t].res] = tasks[t].tok0
        /\ refresh # NULL /\ net = {}

\* The answer to the refresh request of call t is being handled, no other
\* refresh of the same resource is still under way, and storage is no longer
\* what it was when t was called: an overlapping refresh was handled before.
HandledLast(t) ==
    /\ Next_mt("c", "rf_resume") /\ Head(mq).t = t
    /\ Len(mq) = 1
    /\ \A q \in net : q.kind = "refresh" => q.res # tasks[t].res
    /\ access[tasks[t].res] # tasks[t].tok0 \/ refresh # tasks[t].rt0

\* C28: refreshAccessToken calls are not deduplicated: every call made while
\* a refresh token is stored sends a request of its own that carries the
\* refresh token stored at that moment, also while another refresh of the
\* same resource is in flight; and the answer handled last decides what is
\* stored: the tokens and the expiry of a success, no access token and no
\* expiry after a non-200 answer.
C28_LastResponseWins ==
    [][/\ \A r \in ResIds :
            (CallRefreshAccessToken(r) /\ refresh # NULL)
            => /\ net' = net \cup {[t |-> Len(tasks'), kind |-> "refresh",
                                    res |-> r, tok |-> refresh]}
               /\ Cardinality(net') = Cardinality(net) + 1
       /\ \A t \in TaskIds :
            HandledLast(t)
            => LET r == tasks[t].res
                   d == tasks[t].data
               IN IF d \in WellFormed
                  THEN /\ access'[r] = d.at
                       /\ expiry'[r] = now + d.ei * 1000
                       /\ refresh' = d.rt
                  ELSE (d.st # NETERR /\ d.st # 200)
                       => access'[r] = NULL /\ expiry'[r] = NULL]_vars

\* The requests to the token endpoint that this step sends.
Sent == {q \in net' \ net : q.kind \in {"code", "refresh"}}

\* C29: a handleRedirectCallback sends one authorization_code request, for
\* the first resource; when that exchange has succeeded it sends one
\* refresh_token request for each other resource, carrying the refresh token
\* that the exchange returned, and nothing else.
C29_OneExchangeThenRefreshes ==
    [][/\ (CallHandleRedirectCallback /\ url_code # NULL /\ verifier # NULL)
          => Sent = {[t |-> Len(tasks'), kind |-> "code",
                      res |-> resources[1], tok |-> verifier]}
       /\ (Next_mt("c", "ft_resume") \/ Next_mt("c", "cb_resume")) => Sent = {}
       /\ (Next_mt("c", "hrc_resume") /\ tasks[Head(mq).t].data \in WellFormed)
          => Sent = {[t |-> Len(tasks) + i - 1, kind |-> "refresh",
                      res |-> resources[i], tok |-> tasks[Head(mq).t].data.rt]
                       : i \in 2..Len(resources)}]_vars

\* C30: what loginWithRedirect stores under the code-verifier key is the code
\* challenge it put into the authorization url, not the verifier it drew; the
\* code_verifier that the next handleRedirectCallback sends is therefore the
\* code_challenge of the last authorization request.
C30_StoredVerifierIsChallenge ==
    [][/\ Next_mt("c", "login_resume")
          => /\ verifier' = generateCodeChallenge(tasks[Head(mq).t].val)
             /\ verifier' = hist'.challenge
             /\ verifier' # tasks[Head(mq).t].val
       /\ (CallHandleRedirectCallback /\ url_code # NULL /\ verifier # NULL)
          => Sent = {[t |-> Len(tasks'), kind |-> "code",
                      res |-> resources[1], tok |-> hist.challenge]}]_vars

C30_Witness ==
    \E q \in net :
        /\ q.kind = "code"
        /\ q.tok = hist.challenge
        /\ q.tok = generateCodeChallenge(2)
        /\ tasks[q.t].op = "hrc" /\ verifier = NULL

\* C31: one code-verifier value is outstanding at a time.  The step of
\* loginWithRedirect that assigns the navigation has stored its value first,
\* over whatever an earlier login had stored; so the value in storage is
\* always the one of the last authorization request whose navigation was
\* assigned, and that is the value a handleRedirectCallback redeems, also
\* when logins overlapped.
C31_LastLoginWins ==
    [][/\ Next_mt("c", "login_resume")
          => /\ nav' = "login"
             /\ verifier' = generateCodeChallenge(tasks[Head(mq).t].val)
             /\ hist'.discarded = verifier
       /\ verifier' # NULL => verifier' = hist'.challenge
       /\ \A q \in Sent : q.kind = "code" => q.tok = hist'.challenge]_vars

C31_Witness ==
    \E q \in net :
        /\ q.kind = "code" /\ tasks[q.t].op = "hrc"
        /\ q.tok = hist.challenge
        /\ hist.discarded \notin {NULL, q.tok}

\* A call of getUserInfo whose fetchUserInfo has started and has not settled.
FetchInProgress(t) == tasks[t].op = "gui" /\ tasks[t].pc \notin {"start", "done"}

\* C32: whenever this.fetching_user_info is null, no fetchUserInfo started by
\* a getUserInfo call is still in progress.
C32_NullMarkerNoFetch ==
    fetching = NULL => \A t \in TaskIds : ~FetchInProgress(t)

\* The answer that the continuation at the head of the microtask queue is
\* about to read is a success: tokens are stored and subscribers notified.
TokensArrive ==
    /\ Next_mt("c", "rf_resume") \/ Next_mt("c", "ft_resume")
    /\ LET d == tasks[Head(mq).t].data
       IN d.st = 200 /\ d.at # BAD /\ d.rt # BAD /\ d.ei # BAD

\* C33: when a successful code exchange or refresh notifies the subscribers
\* of the new access token, storage already holds the refresh token of the
\* same response: a callback that reads it sees that one.
C33_RefreshTokenStoredBeforeNotify ==
    [][TokensArrive
          => \A i \in 1..Len(cbs') :
                cbs'[i].n > 0 => cbs'[i].rt = tasks[Head(mq).t].data.rt]_vars

\* A logout was the last event on the tokens of a session, and the callbacks
\* it started have run to their end.
LogoutDone ==
    /\ hist.session = "closed"
    /\ \A t \in TaskIds : tasks[t].op = "logoutCb" => tasks[t].pc = "done"

\* The continuation about to run reads the success of a code exchange.
ExchangeSucceeds ==
    /\ Next_mt("c", "ft_resume")
    /\ tasks[Head(mq).t].data \in WellFormed

\* C34: with no logout endpoint configured, once logout() has completed no
\* access token and no refresh token comes back into storage before a new
\* handleRedirectCallback succeeds, whatever refresh request was in flight
\* when logout() was called.
C34_NoTokenAfterLogout ==
    [][(LogoutDone /\ ~ExchangeSucceeds)
          => /\ \A r \in ResIds : access[r] = NULL => access'[r] = NULL
             /\ refresh = NULL => refresh' = NULL]_vars

\* C35: the answer to a user-info request whose access token was cleared or
\* replaced while the request was in flight is not left in the cache: when no
\* operation of the client is in the middle of its execution, a cached
\* profile implies a stored access token of the user-info resource.
C35_CachedProfileHasToken ==
    (Quiet /\ user_info # NULL) => access[UserInfoResource] # NULL

\* The resource whose tokens the continuation at the head of the microtask
\* queue stores when the answer it reads is a success.
ArrivingFor ==
    IF Next_mt("c", "ft_resume") THEN resources[1] ELSE tasks[Head(mq).t].res

\* The access token of r leaves storage only when a refresh of r is answered
\* with a status other than 200, and the refresh token stays.
LostByRejection(r) ==
    (access[r] # NULL /\ access'[r] = NULL)
       => /\ Next_mt("c", "rf_resume")
          /\ tasks[Head(mq).t].res = r
          /\ tasks[Head(mq).t].data.st \notin {200, NETERR}
          /\ refresh' = refresh /\ refresh # NULL

\* getAccessToken(r) with no access token stored for r returns null, sends
\* nothing and changes nothing in storage.
NullWithoutRequest(r) ==
    \A rie \in BOOLEAN :
       (CallGetAccessToken(r, rie) /\ access[r] = NULL)
          => /\ tasks'[Len(tasks')].pc = "done"
             /\ tasks'[Len(tasks')].out = "ok"
             /\ tasks'[Len(tasks')].ret = NULL
             /\ net' = net
             /\ tokens' = tokens

C37_FailureNotSticky ==
    [][(/\ CallGetUserInfo
        /\ GuiPending(Cur) = {}
        /\ user_info = NULL
        /\ access[UserInfoResource] # NULL)
          => /\ fetching' = Len(tasks')
             /\ tasks'[Len(tasks')].pc # "start"]_vars

\* Call t of getAccessToken with refresh_if_expired returns a token in this
\* step, every answer of the provider so far having carried non-empty tokens
\* and a positive expires_in.
ReturnsToken(t) ==
    /\ tasks'[t].op = "gat" /\ tasks'[t].rie
    /\ tasks'[t].pc = "done" /\ tasks'[t].out = "ok" /\ tasks'[t].ret # NULL
    /\ t > Len(tasks) \/ tasks[t].pc # "done"
    /\ hist'.all_ok

====
